---- MODULE Spec2Model ----
(***************************************************************************)
(* Model of shortcut_creator.py (Desktop Shortcut Creator).                *)
(*                                                                         *)
(* Python strings are TLA+ strings; TLC evaluates Len, SubSeq and \o on    *)
(* them, so every string operation of the program (strip, split, lower,   *)
(* startswith, replace, the Flatpak regular expression, shlex.split) is    *)
(* computed character by character as the interpreter computes it.         *)
(*                                                                         *)
(* Three specifications share the variables:                               *)
(*   Spec        the application catalog: load_applications and            *)
(*               refresh_applications over a changing filesystem;          *)
(*   SpecParser  parse_desktop_file and find_executable_path applied to    *)
(*               one .desktop file at a time;                              *)
(*   SpecWriter  the form fields and create_shortcut.                      *)
(***************************************************************************)
EXTENDS Integers, Sequences, FiniteSets, TLC

VARIABLES
    environ,        \* os.environ: the variables the program reads
    fs,             \* the filesystem: path -> node
    applications,   \* self.applications (the catalog)
    parsed,         \* the file paths handed to parse_desktop_file by the last load, in order
    app_info,       \* the value returned by the last parse_desktop_file / find_executable_path call
    name_var, path_var, icon_var, desc_var, categories_var, terminal_var, dest_var,
    last            \* the last operation performed, and what it did

catalogVars == <<applications, parsed>>
parserVars  == <<app_info>>
formVars    == <<name_var, path_var, icon_var, desc_var, categories_var, terminal_var, dest_var>>
vars        == <<environ, fs, applications, parsed, app_info, name_var, path_var, icon_var,
                 desc_var, categories_var, terminal_var, dest_var, last>>

---------------------------------------------------------------------------
(* Python str operations *)

\* s[a-1:b] for 1 <= a: a slice, cut at the end of the string
Slice(s, a, b) ==
    IF a > b \/ a > Len(s) THEN "" ELSE SubSeq(s, a, IF b > Len(s) THEN Len(s) ELSE b)

\* The character at position i ("" past the end)
Ch(s, i) == Slice(s, i, i)

Min(S) == CHOOSE x \in S : \A y \in S : x <= y
Max(S) == CHOOSE x \in S : \A y \in S : x >= y

StartsWith(s, p) == Len(p) <= Len(s) /\ SubSeq(s, 1, Len(p)) = p

EndsWith(s, p) == Len(p) <= Len(s) /\ SubSeq(s, Len(s) - Len(p) + 1, Len(s)) = p

\* The first position >= i where sub occurs in s, 0 when there is none
FindFrom(s, sub, i) ==
    LET First(hits) == IF hits = {} THEN 0 ELSE Min(hits)
    IN  First({k \in i..(Len(s) - Len(sub) + 1) : SubSeq(s, k, k + Len(sub) - 1) = sub})

\* s.find(sub) + 1: the first position where sub occurs, 0 when it does not.
Find(s, sub) == FindFrom(s, sub, 1)

\* sub in s
Contains(s, sub) == Find(s, sub) # 0

\* The last position <= i where sub occurs in s, 0 when there is none
FindBack(s, sub, i) ==
    LET Last(hits) == IF hits = {} THEN 0 ELSE Max(hits)
    IN  Last({k \in 1..i : k + Len(sub) - 1 <= Len(s) /\ SubSeq(s, k, k + Len(sub) - 1) = sub})

\* s.rfind(sub) + 1
RFind(s, sub) == FindBack(s, sub, Len(s) - Len(sub) + 1)

\* str.isspace for one character (the ASCII whitespace str.strip() and \s remove)
Whitespace == {" ", "\t", "\n", "\r", "\f"}

\* The first position >= i of s holding a character outside chars (Len(s) + 1 when
\* there is none)
SkipForward(s, chars, i) ==
    Min({k \in i..Len(s) : SubSeq(s, k, k) \notin chars} \cup {Max({i, Len(s) + 1})})

\* The last position <= i of s holding a character outside chars (0 when there is none)
SkipBackward(s, chars, i) ==
    Max({k \in 1..Min({i, Len(s)}) : SubSeq(s, k, k) \notin chars} \cup {0})

\* The first position >= i of s holding a character of chars (Len(s) + 1 when there
\* is none)
SkipTo(s, chars, i) ==
    Min({k \in i..Len(s) : SubSeq(s, k, k) \in chars} \cup {Max({i, Len(s) + 1})})

\* s.strip(chars)
StripChars(s, chars) == Slice(s, SkipForward(s, chars, 1), SkipBackward(s, chars, Len(s)))

\* s.strip()
Strip(s) == StripChars(s, Whitespace)

\* s.split(sep): every piece between occurrences of sep, empty pieces kept
RECURSIVE Split(_, _)
Split(s, sep) ==
    LET CutAt(i) == IF i = 0 THEN <<s>>
                    ELSE <<SubSeq(s, 1, i - 1)>> \o Split(SubSeq(s, i + Len(sep), Len(s)), sep)
    IN  CutAt(Find(s, sep))

\* s.split(sep, 1): cut at the first occurrence of sep only
SplitOnce(s, sep) ==
    LET CutAt(i) == IF i = 0 THEN <<s>>
                    ELSE <<SubSeq(s, 1, i - 1), SubSeq(s, i + Len(sep), Len(s))>>
    IN  CutAt(Find(s, sep))

\* s.split(): the maximal runs of non-whitespace characters
RECURSIVE SplitWhitespace(_)
SplitWhitespace(s) ==
    LET CutAt(t, e) == <<SubSeq(t, 1, e - 1)>> \o SplitWhitespace(SubSeq(t, e, Len(t)))
        Runs(t)     == IF t = "" THEN <<>> ELSE CutAt(t, SkipTo(t, Whitespace, 1))
    IN  Runs(Strip(s))

UpperChars == "ABCDEFGHIJKLMNOPQRSTUVWXYZ"
LowerChars == "abcdefghijklmnopqrstuvwxyz"
DigitChars == "0123456789"

CharsOf(s) == {Ch(s, i) : i \in 1..Len(s)}

AlnumChars == CharsOf(UpperChars) \cup CharsOf(LowerChars) \cup CharsOf(DigitChars)

\* c.isalnum() for one ASCII character
IsAlnum(c) == c \in AlnumChars

LowerChar(c) ==
    LET At(k) == IF k # 0 THEN Ch(LowerChars, k) ELSE c
    IN  At(Find(UpperChars, c))

\* "".join(parts[a..b])
RECURSIVE Concat(_, _, _)
Concat(parts, a, b) ==
    IF a > b THEN ""
    ELSE IF a = b THEN parts[a]
    ELSE Concat(parts, a, (a + b) \div 2) \o Concat(parts, (a + b) \div 2 + 1, b)

\* s.lower()
Lower(s) == Concat([i \in 1..Len(s) |-> LowerChar(Ch(s, i))], 1, Len(s))

\* s.replace(old, new): left to right, non-overlapping, one pass
RECURSIVE Replace(_, _, _)
Replace(s, old, new) ==
    LET CutAt(i) == IF i = 0 THEN s
                    ELSE SubSeq(s, 1, i - 1) \o new \o Replace(SubSeq(s, i + Len(old), Len(s)), old, new)
    IN  CutAt(Find(s, old))

\* The printable ASCII characters in code-point order (the backquote, which no input
\* of the model contains, left out): str comparison is by code point.
AsciiOrder == " !\"#$%&'()*+,-./0123456789:;<=>?@ABCDEFGHIJKLMNOPQRSTUVWXYZ[\\]^_abcdefghijklmnopqrstuvwxyz{|}~"

Ord(c) == Find(AsciiOrder, c)

\* a <= b for Python strings
RECURSIVE StrLeq(_, _)
StrLeq(a, b) ==
    IF a = "" THEN TRUE
    ELSE IF b = "" THEN FALSE
    ELSE IF Ch(a, 1) = Ch(b, 1) THEN StrLeq(SubSeq(a, 2, Len(a)), SubSeq(b, 2, Len(b)))
    ELSE Ord(Ch(a, 1)) < Ord(Ch(b, 1))

---------------------------------------------------------------------------
(* Python dict, None, os.environ *)

\* The empty dict {}
EmptyDict == [k \in {} |-> ""]

\* d[k] = v
Put(d, k, v) == [x \in DOMAIN d \cup {k} |-> IF x = k THEN v ELSE d[x]]

\* d.get(k, default)
Get(d, k, default) == IF k \in DOMAIN d THEN d[k] ELSE default

\* None, as a value returned in place of an entry
None == [none |-> TRUE]

\* None, as the value of the string variable current_section before any header
NoSection == "\n"

\* Path.home()
Home == "/home/user"

\* os.getcwd(): the directory relative paths are resolved against
Cwd == "/home/user"

---------------------------------------------------------------------------
(* The filesystem: a function from normalised absolute paths to nodes      *)
(* [kind, mode, content, utf8]; a path outside its domain does not exist.  *)

Mode644 == 420
Mode755 == 493

DirNode == [kind |-> "dir", mode |-> Mode755, content |-> "", utf8 |-> TRUE]

FileNode(mode, content) == [kind |-> "file", mode |-> mode, content |-> content, utf8 |-> TRUE]

\* A file whose bytes are not valid UTF-8
BinaryNode == [kind |-> "file", mode |-> Mode644, content |-> "", utf8 |-> FALSE]

\* os.path.isabs(p)
IsAbs(p) == StartsWith(p, "/")

\* The components of a path after resolution of "", "." and ".." (the kernel's walk)
RECURSIVE Walk(_, _, _)
Walk(comps, i, acc) ==
    IF i > Len(comps) THEN acc
    ELSE IF comps[i] = "" \/ comps[i] = "." THEN Walk(comps, i + 1, acc)
    ELSE IF comps[i] = ".." THEN Walk(comps, i + 1, IF acc = <<>> THEN acc ELSE SubSeq(acc, 1, Len(acc) - 1))
    ELSE Walk(comps, i + 1, Append(acc, comps[i]))

RECURSIVE JoinComps(_, _)
JoinComps(comps, i) == IF i > Len(comps) THEN "" ELSE "/" \o comps[i] \o JoinComps(comps, i + 1)

\* The path string of a component list
PathOf(comps) == IF comps = <<>> THEN "/" ELSE JoinComps(comps, 1)

\* The absolute, normalised name of the node a path string designates
Resolve(p) == PathOf(Walk(Split(IF IsAbs(p) THEN p ELSE Cwd \o "/" \o p, "/"), 1, <<>>))

\* What a failed stat() leaves: no node
NoNode == [kind |-> "none", mode |-> 0, content |-> "", utf8 |-> TRUE]

\* os.stat(p) in the filesystem files: the node a path string designates, NoNode
\* when there is none (a trailing slash asks for a directory)
StatIn(files, p) ==
    LET At(r) == IF r \notin DOMAIN files THEN NoNode
                 ELSE IF EndsWith(p, "/") /\ files[r].kind # "dir" THEN NoNode
                 ELSE files[r]
    IN  IF p = "" THEN NoNode ELSE At(Resolve(p))

\* os.stat(p)
Stat(p) == StatIn(fs, p)

\* os.path.exists(p), Path(p).exists()
Exists(p) == Stat(p).kind # "none"

\* Path(p).is_dir()
IsDir(p) == Stat(p).kind = "dir"

\* Path(p).is_file()
IsFile(p) == Stat(p).kind = "file"

\* The owner's execute bit (0o100) of a mode
HasX(mode) == (mode \div 64) % 2 = 1

\* os.access(p, os.X_OK)
AccessX(p) == HasX(Stat(p).mode)

\* The components pathlib keeps of a path string: empty and "." components dropped,
\* ".." kept
RECURSIVE PureParts(_, _)
PureParts(comps, i) ==
    IF i > Len(comps) THEN <<>>
    ELSE IF comps[i] = "" \/ comps[i] = "." THEN PureParts(comps, i + 1)
    ELSE <<comps[i]>> \o PureParts(comps, i + 1)

\* str(Path(p)): "." for an empty relative path
PathStr(p) ==
    LET Str(abs) == IF IsAbs(p) THEN abs
                    ELSE IF abs = "/" THEN "."
                    ELSE Slice(abs, 2, Len(abs))
    IN  Str(PathOf(PureParts(Split(p, "/"), 1)))

\* str(Path(p).parent) for an absolute path
Parent(p) ==
    LET Up(comps) == PathOf(SubSeq(comps, 1, Len(comps) - 1))
    IN  Up(PureParts(Split(p, "/"), 1))

\* os.path.join(a, b) for a relative b
PathJoin(a, b) == IF a = "" \/ EndsWith(a, "/") THEN a \o b ELSE a \o "/" \o b

---------------------------------------------------------------------------
(* shlex.split(s): the POSIX tokenizer with whitespace_split, no comments  *)

ShlexWhitespace == {" ", "\t", "\r", "\n"}
ShlexQuotes     == {"'", "\""}

\* shlex.read_token, a run of characters at a time: state is " " (between tokens),
\* "a" (inside a word), a quote character (inside that quote) or "\\" (after an
\* escape, escapedstate being the state to return to). The result is
\* [ok |-> FALSE] for ValueError (no closing quotation, no escaped character).
RECURSIVE ShlexScan(_, _, _, _, _, _, _)

\* Between tokens: whitespace is skipped, any other character starts a token
ShlexBetween(s, i, escapedstate, out) ==
    LET c == Ch(s, i)
    IN  IF c \in ShlexWhitespace
        THEN ShlexScan(s, SkipForward(s, ShlexWhitespace, i), " ", escapedstate, "", FALSE, out)
        ELSE IF c = "\\" THEN ShlexScan(s, i + 1, "\\", "a", "", FALSE, out)
        ELSE IF c \in ShlexQuotes THEN ShlexScan(s, i + 1, c, escapedstate, "", FALSE, out)
        ELSE ShlexScan(s, i + 1, "a", escapedstate, c, FALSE, out)

\* Inside a word: whitespace ends the token, a quote or a backslash changes the state,
\* a run of other characters is added to the token
ShlexWord(s, i, escapedstate, token, quoted, out) ==
    LET c == Ch(s, i)
        Run(e) == ShlexScan(s, e, "a", escapedstate, token \o SubSeq(s, i, e - 1), quoted, out)
        emit   == IF token # "" \/ quoted THEN Append(out, token) ELSE out
    IN  IF c \in ShlexWhitespace THEN ShlexScan(s, i + 1, " ", escapedstate, "", FALSE, emit)
        ELSE IF c \in ShlexQuotes THEN ShlexScan(s, i + 1, c, escapedstate, token, quoted, out)
        ELSE IF c = "\\" THEN ShlexScan(s, i + 1, "\\", "a", token, quoted, out)
        ELSE Run(SkipTo(s, ShlexWhitespace \cup ShlexQuotes \cup {"\\"}, i))

\* Inside quotes: the same quote closes them, a backslash escapes inside double
\* quotes, a run of other characters is added to the token
ShlexQuoted(s, i, state, escapedstate, token, out) ==
    LET c == Ch(s, i)
        Run(e) == ShlexScan(s, e, state, escapedstate, token \o SubSeq(s, i, e - 1), TRUE, out)
    IN  IF c = state THEN ShlexScan(s, i + 1, "a", escapedstate, token, TRUE, out)
        ELSE IF c = "\\" /\ state = "\"" THEN ShlexScan(s, i + 1, "\\", state, token, TRUE, out)
        ELSE Run(SkipTo(s, IF state = "\"" THEN {state, "\\"} ELSE {state}, i))

\* After a backslash: the character is taken as it stands; inside double quotes the
\* backslash is kept before a character that needs no escape
ShlexEscaped(s, i, escapedstate, token, quoted, out) ==
    LET c == Ch(s, i)
    IN  IF escapedstate \in ShlexQuotes /\ c # "\\" /\ c # escapedstate
        THEN ShlexScan(s, i + 1, escapedstate, escapedstate, token \o "\\" \o c, quoted, out)
        ELSE ShlexScan(s, i + 1, escapedstate, escapedstate, token \o c, quoted, out)

\* The end of the string: a pending word is a token, an open quote or a pending
\* escape is an error
ShlexEnd(state, token, quoted, out) ==
    IF state = " " THEN [ok |-> TRUE, parts |-> out]
    ELSE IF state = "a" THEN [ok |-> TRUE, parts |-> IF token # "" \/ quoted THEN Append(out, token) ELSE out]
    ELSE [ok |-> FALSE, parts |-> <<>>]

ShlexScan(s, i, state, escapedstate, token, quoted, out) ==
    CASE i > Len(s) -> ShlexEnd(state, token, quoted, out)
      [] i <= Len(s) /\ state = " " -> ShlexBetween(s, i, escapedstate, out)
      [] i <= Len(s) /\ state = "a" -> ShlexWord(s, i, escapedstate, token, quoted, out)
      [] i <= Len(s) /\ state \in ShlexQuotes -> ShlexQuoted(s, i, state, escapedstate, token, out)
      [] i <= Len(s) /\ state = "\\" -> ShlexEscaped(s, i, escapedstate, token, quoted, out)

ShlexSplit(s) == ShlexScan(s, 1, " ", " ", "", FALSE, <<>>)

\* [part.strip('"\'') for part in exec_string.split() if part.strip()]
FallbackSplit(s) ==
    LET parts == SplitWhitespace(s)
    IN  [i \in 1..Len(parts) |-> StripChars(parts[i], ShlexQuotes)]

---------------------------------------------------------------------------
(* subprocess.run(['which', exec_candidate]): the lookup tool, as the      *)
(* system's which behaves                                                  *)

\* The directories of PATH, which the subprocess inherits
PathDirs == Split(Get(environ, "PATH", "/bin:/usr/bin"), ":")

\* How the attempt to start `which` ends: "ok", "missing" (FileNotFoundError: no
\* file named which in any directory of PATH) or "error" (another exception: the
\* only file named which cannot be executed)
WhichTool ==
    LET Outcome(found) == IF \E n \in found : HasX(n.mode) THEN "ok"
                          ELSE IF found # {} THEN "error"
                          ELSE "missing"
        Named(dirs)    == {n \in {Stat(PathJoin(dirs[i], "which")) : i \in 1..Len(dirs)} :
                              n.kind = "file"}
    IN  Outcome(Named(PathDirs))

\* What `which` answers: a name holding a slash is tested as it stands and echoed
\* back; any other name is looked up in the directories of PATH in order (an empty
\* entry standing for "."), and the first executable file found is printed.
WhichRun(exec_candidate) ==
    LET Runnable(n)   == n.kind = "file" /\ HasX(n.mode)
        In(dir)       == (IF dir = "" THEN "." ELSE dir) \o "/" \o exec_candidate
        Found(f)      == [returncode |-> 0, stdout |-> f \o "\n"]
        NotFound      == [returncode |-> 1, stdout |-> ""]
        First(dirs, hits) == IF hits = {} THEN NotFound ELSE Found(In(dirs[Min(hits)]))
        Search(dirs)  == First(dirs, {i \in 1..Len(dirs) : Runnable(Stat(In(dirs[i])))})
    IN  IF Contains(exec_candidate, "/")
        THEN IF Runnable(Stat(exec_candidate)) THEN Found(exec_candidate) ELSE NotFound
        ELSE Search(PathDirs)

---------------------------------------------------------------------------
(* ShortcutCreator.find_executable_path *)

\* Case 2 with the candidate, not the raw string, returned when the lookup fails
WhichCaseCandidate(exec_string, exec_candidate) ==
    LET Checked(returncode, resolved_path) ==
            IF returncode = 0 /\ AccessX(resolved_path) THEN resolved_path ELSE exec_candidate
        Answered(result) == Checked(result.returncode, Strip(result.stdout))
    IN  IF WhichTool # "ok" THEN exec_candidate ELSE Answered(WhichRun(exec_candidate))

\* Case 2 of find_executable_path: the command in PATH
WhichCase(exec_string, exec_candidate) ==
    LET Checked(returncode, resolved_path) ==
            IF returncode = 0 /\ AccessX(resolved_path) THEN resolved_path ELSE exec_string
        Answered(result) == Checked(result.returncode, Strip(result.stdout))
    IN  IF WhichTool # "ok" THEN exec_string ELSE Answered(WhichRun(exec_candidate))

\* exec_parts: shlex.split, and on ValueError the fallback split
ExecParts(exec_string) ==
    LET Parts(split) == IF split.ok THEN split.parts ELSE FallbackSplit(exec_string)
    IN  Parts(ShlexSplit(exec_string))

\* exec_parts[0].split('%')[0].strip()
ExecCandidate(exec_parts) == Strip(Split(exec_parts[1], "%")[1])

find_executable_path(exec_string) ==
    LET Lookup(exec_candidate) ==
            IF exec_candidate = "" THEN exec_string
            ELSE IF IsAbs(exec_candidate) /\ Exists(exec_candidate) /\ AccessX(exec_candidate)
                 THEN exec_candidate
            ELSE WhichCase(exec_string, exec_candidate)
        First(exec_parts) ==
            IF exec_parts = <<>> THEN exec_string ELSE Lookup(ExecCandidate(exec_parts))
    IN  First(ExecParts(exec_string))

---------------------------------------------------------------------------
(* The Flatpak pattern of parse_desktop_file:                              *)
(* flatpak run\s+(--[a-zA-Z0-9=\-\.]+?\s+)*?([a-zA-Z0-9\.\-_]+)(?=\s|\Z)   *)

\* [a-zA-Z0-9=\-\.]
FlagClass == AlnumChars \cup {"=", "-", "."}

\* [a-zA-Z0-9\.\-_]
IdClass == AlnumChars \cup {".", "-", "_"}

\* The first position >= i holding no whitespace (Len(s) + 1 when there is none)
SkipSpaces(s, i) == SkipForward(s, Whitespace, i)

\* The first position >= i holding no flag-class character
FlagRunEnd(s, i) == SkipForward(s, FlagClass, i)

\* The first position >= i holding no identifier-class character
IdRunEnd(s, i) == SkipForward(s, IdClass, i)

\* group 2 and the lookahead at position j: a greedy run of identifier characters
\* followed by whitespace or the end. Giving characters back cannot help: a shorter
\* run is followed by an identifier character.
IdMatchesAt(s, j) ==
    LET e == IdRunEnd(s, j)
    IN  e > j /\ (e = Len(s) + 1 \/ Ch(s, e) \in Whitespace)

\* One repetition of group 1 at position j: "--", a lazy run of flag characters,
\* whitespace. The run must reach the whitespace, so its end is determined.
FlagMatchesAt(s, j) ==
    LET e == FlagRunEnd(s, j + 2)
    IN  /\ Slice(s, j, j + 1) = "--"
        /\ e > j + 2
        /\ e <= Len(s)
        /\ Ch(s, e) \in Whitespace

\* The lazy (...)*? before group 2: the identifier is tried first at every position,
\* one more flag token is consumed only when that fails.
RECURSIVE FlagsThenId(_, _)
FlagsThenId(s, j) ==
    IF IdMatchesAt(s, j) THEN [matched |-> TRUE, flatpak_id |-> SubSeq(s, j, IdRunEnd(s, j) - 1)]
    ELSE IF FlagMatchesAt(s, j) THEN FlagsThenId(s, SkipSpaces(s, FlagRunEnd(s, j + 2)))
    ELSE [matched |-> FALSE, flatpak_id |-> ""]

\* The pattern tried with "flatpak run" at position i
MatchAt(s, i) ==
    IF /\ Slice(s, i, i + 10) = "flatpak run"
       /\ i + 11 <= Len(s)
       /\ Ch(s, i + 11) \in Whitespace
    THEN FlagsThenId(s, SkipSpaces(s, i + 11))
    ELSE [matched |-> FALSE, flatpak_id |-> ""]

\* The pattern tried at every position >= i where its literal head "flatpak run"
\* occurs, from left to right
RECURSIVE SearchFrom(_, _)
SearchFrom(s, i) ==
    LET Tried(k, match) == IF match.matched THEN match ELSE SearchFrom(s, k + 1)
        From(k) == IF k = 0 THEN [matched |-> FALSE, flatpak_id |-> ""]
                   ELSE Tried(k, MatchAt(s, k))
    IN  From(FindFrom(s, "flatpak run", i))

\* re.search: the match at the leftmost position where the pattern matches
FlatpakSearch(s) ==
    SearchFrom(s, 1)

---------------------------------------------------------------------------
(* ShortcutCreator.parse_desktop_file *)

\* The scan with every key=value line stored, whatever section it stands in
RECURSIVE ScanLinesAnySection(_, _, _, _)
ScanLinesAnySection(lines, i, current_section, desktop_dict) ==
    LET Store(pair) == Put(desktop_dict, pair[1], pair[2])
        Line(line) ==
            IF StartsWith(line, "[") /\ EndsWith(line, "]")
            THEN ScanLinesAnySection(lines, i + 1, Slice(line, 2, Len(line) - 1), desktop_dict)
            ELSE IF Contains(line, "=")
            THEN ScanLinesAnySection(lines, i + 1, current_section, Store(SplitOnce(line, "=")))
            ELSE ScanLinesAnySection(lines, i + 1, current_section, desktop_dict)
    IN  IF i > Len(lines) THEN desktop_dict ELSE Line(Strip(lines[i]))

\* The loop over content.split('\n'): a header line sets current_section, a line
\* holding "=" inside [Desktop Entry] is stored under its key.
RECURSIVE ScanLines(_, _, _, _)
ScanLines(lines, i, current_section, desktop_dict) ==
    LET Store(pair) == Put(desktop_dict, pair[1], pair[2])
        Line(line) ==
            IF StartsWith(line, "[") /\ EndsWith(line, "]")
            THEN ScanLines(lines, i + 1, Slice(line, 2, Len(line) - 1), desktop_dict)
            ELSE IF current_section = "Desktop Entry" /\ Contains(line, "=")
            THEN ScanLines(lines, i + 1, current_section, Store(SplitOnce(line, "=")))
            ELSE ScanLines(lines, i + 1, current_section, desktop_dict)
    IN  IF i > Len(lines) THEN desktop_dict ELSE Line(Strip(lines[i]))

\* desktop_dict of a file's text
DesktopDict(content) == ScanLines(Split(content, "\n"), 1, NoSection, EmptyDict)

\* lang_code = os.environ.get('LANG', 'en_US.UTF-8').split('.')[0]
LangCode == Split(Get(environ, "LANG", "en_US.UTF-8"), ".")[1]

\* desktop_dict.get(f'Key[{lang_code}]', desktop_dict.get('Key', ''))
Localized(desktop_dict, key) ==
    Get(desktop_dict, key \o "[" \o LangCode \o "]", Get(desktop_dict, key, ""))

\* name: the localized Name, else GenericName
EntryName(desktop_dict) ==
    LET Or(name) == IF name # "" THEN name ELSE Get(desktop_dict, "GenericName", "")
    IN  Or(Localized(desktop_dict, "Name"))

FlatpakSystemDir == "/var/lib/flatpak/exports/share/applications/"
FlatpakUserDir   == Home \o "/.local/share/flatpak/exports/share/applications/"

is_flatpak(desktop_dict, file_path) ==
    \/ Lower(Get(desktop_dict, "X-Flatpak", "")) = "true"
    \/ StartsWith(file_path, FlatpakSystemDir)
    \/ StartsWith(file_path, FlatpakUserDir)

is_snap(desktop_dict, file_path) ==
    Contains(Get(desktop_dict, "Exec", ""), "snap/gui") /\ ~is_flatpak(desktop_dict, file_path)

\* exec_string_original.split('/')[-1].split(' ')[0]
ExecBaseName(exec_string_original) ==
    LET Last(parts) == Split(parts[Len(parts)], " ")[1]
    IN  Last(Split(exec_string_original, "/"))

\* The Flatpak branch: when the pattern finds an ID, the command becomes
\* "flatpak run <ID>" and the ID replaces an empty icon or one equal to the last path
\* component of Exec; when it does not, the Exec value is kept as it is
FlatpakBranch(exec_string_original, icon, match) ==
    IF match.matched
    THEN [resolved_exec_command |-> "flatpak run " \o match.flatpak_id,
          icon |-> IF icon = "" \/ icon = ExecBaseName(exec_string_original)
                   THEN match.flatpak_id ELSE icon]
    ELSE [resolved_exec_command |-> exec_string_original, icon |-> icon]

\* resolved_exec_command and icon with the Snap test made before the Flatpak test
ResolvedExecSnapFirst(desktop_dict, file_path, exec_string_original, icon) ==
    IF Contains(exec_string_original, "snap/gui")
    THEN [resolved_exec_command |-> exec_string_original, icon |-> icon]
    ELSE IF is_flatpak(desktop_dict, file_path)
    THEN FlatpakBranch(exec_string_original, icon, FlatpakSearch(exec_string_original))
    ELSE [resolved_exec_command |-> find_executable_path(exec_string_original), icon |-> icon]

\* resolved_exec_command and icon, by the branch the entry takes
ResolvedExec(desktop_dict, file_path, exec_string_original, icon) ==
    IF is_flatpak(desktop_dict, file_path)
    THEN FlatpakBranch(exec_string_original, icon, FlatpakSearch(exec_string_original))
    ELSE IF is_snap(desktop_dict, file_path)
    THEN [resolved_exec_command |-> exec_string_original, icon |-> icon]
    ELSE [resolved_exec_command |-> find_executable_path(exec_string_original), icon |-> icon]

\* The dict parse_desktop_file returns for a file's text
Entry(desktop_dict, file_path) ==
    LET Fields(resolved) ==
            [name          |-> EntryName(desktop_dict),
             exec          |-> Get(desktop_dict, "Exec", ""),
             resolved_path |-> resolved.resolved_exec_command,
             icon          |-> resolved.icon,
             comment       |-> Localized(desktop_dict, "Comment"),
             categories    |-> Get(desktop_dict, "Categories", ""),
             terminal      |-> Lower(Get(desktop_dict, "Terminal", "")) = "true",
             desktop_file  |-> file_path]
    IN  Fields(ResolvedExec(desktop_dict, file_path, Get(desktop_dict, "Exec", ""),
                            Localized(desktop_dict, "Icon")))

\* open(file_path, 'r', encoding='utf-8').read() succeeds
Readable(node) == node.kind = "file" /\ node.utf8

\* An unreadable file (missing, a directory, not UTF-8) raises, and the except
\* clause returns None
parse_desktop_file(file_path) ==
    LET Read(node) == IF Readable(node) THEN Entry(DesktopDict(node.content), file_path)
                      ELSE None
    IN  Read(Stat(file_path))

---------------------------------------------------------------------------
(* ShortcutCreator.load_applications *)

\* desktop_dirs as first written: the six fixed directories
FixedDirs ==
    << "/usr/share/applications/",
       "/usr/local/share/applications/",
       Home \o "/.local/share/applications/",
       "/var/lib/snapd/desktop/applications/",
       FlatpakSystemDir,
       FlatpakUserDir >>

InList(x, list) == \E i \in 1..Len(list) : list[i] = x

\* for d in xdg_data_dirs: if d and d not in desktop_dirs: append(join(d, "applications"))
RECURSIVE AddXdgDataDirs(_, _, _)
AddXdgDataDirs(desktop_dirs, xdg_data_dirs, i) ==
    IF i > Len(xdg_data_dirs) THEN desktop_dirs
    ELSE IF xdg_data_dirs[i] # "" /\ ~InList(xdg_data_dirs[i], desktop_dirs)
         THEN AddXdgDataDirs(Append(desktop_dirs, PathJoin(xdg_data_dirs[i], "applications")),
                             xdg_data_dirs, i + 1)
    ELSE AddXdgDataDirs(desktop_dirs, xdg_data_dirs, i + 1)

\* The XDG_DATA_HOME step: appended if the variable's value is non-empty and the
\* user's applications directory is not in the list yet
AddXdgDataHome(desktop_dirs) ==
    LET xdg_data_home == Get(environ, "XDG_DATA_HOME", Home \o "/.local/share")
    IN  IF xdg_data_home # "" /\ ~InList(Home \o "/.local/share/applications/", desktop_dirs)
        THEN Append(desktop_dirs, PathJoin(xdg_data_home, "applications"))
        ELSE desktop_dirs

\* desktop_dirs before "Dedup and ensure paths exist"
ListedDirs ==
    AddXdgDataHome(AddXdgDataDirs(FixedDirs, Split(Get(environ, "XDG_DATA_DIRS", ""), ":"), 1))

\* [d for d in list(set(desktop_dirs)) if os.path.exists(d)], as a set: the order
\* in which a set is iterated is not defined
DesktopDirs == {d \in {ListedDirs[i] : i \in 1..Len(ListedDirs)} : Exists(d)}

\* The last component of a normalised path
BaseName(q) == Slice(q, RFind(q, "/") + 1, Len(q))

\* fnmatch(name, prefix + "*.desktop"), names starting with "." being matched only by
\* a pattern that starts with "."
MatchesDesktop(name, prefix) ==
    /\ EndsWith(name, ".desktop")
    /\ StartsWith(name, prefix)
    /\ Len(name) >= Len(prefix) + Len(".desktop")
    /\ (StartsWith(name, ".") => StartsWith(prefix, "."))

\* glob.glob(f"{directory}*.desktop"): the pattern is cut at its last "/" into a
\* directory, which is listed, and a name pattern; each match is returned as that
\* directory joined with the name
Glob(directory) ==
    LET Names(listed, prefix) ==
            {BaseName(r) : r \in {q \in DOMAIN fs : /\ EndsWith(q, ".desktop")
                                                    /\ Parent(q) = listed
                                                    /\ MatchesDesktop(BaseName(q), prefix)}}
        Matches(dirname, prefix) ==
            IF ~IsDir(dirname) THEN {}
            ELSE {PathJoin(dirname, name) : name \in Names(Resolve(dirname), prefix)}
        CutAt(k) == Matches(IF k = 1 THEN "/" ELSE Slice(directory, 1, k - 1),
                            Slice(directory, k + 1, Len(directory)))
    IN  CutAt(RFind(directory, "/"))

\* Every (directory, file) pair the two nested loops visit
Hits == UNION {{[directory |-> d, file_path |-> f] : f \in Glob(d)} : d \in DesktopDirs}

RECURSIVE Perms(_)
Perms(S) == IF S = {} THEN {<<>>} ELSE UNION {{<<x>> \o p : p \in Perms(S \ {x})} : x \in S}

\* The orders in which the loops may visit the pairs: directories in the set's
\* iteration order, the files of one directory together, in the order glob lists them
ScanOrders ==
    {seq \in Perms(Hits) :
        \A i, j, k \in 1..Len(seq) :
            (i < j /\ j < k /\ seq[i].directory = seq[k].directory)
                => seq[j].directory = seq[i].directory}

\* The filter with the test of 'exec' forgotten
ValidNameOnly(info) == info # None /\ info.name # ""

\* if app_info and app_info['name'] and app_info['exec']
Valid(info) == info # None /\ info.name # "" /\ info.exec # ""

\* The entries appended while the pairs are visited in the given order
RECURSIVE Collect(_, _)
Collect(seq, i) ==
    LET Kept(info) == IF Valid(info) THEN <<info>> ELSE <<>>
    IN  IF i > Len(seq) THEN <<>>
        ELSE Kept(parse_desktop_file(seq[i].file_path)) \o Collect(seq, i + 1)

\* The sort key without the lowering: x['name']
SortKeyCaseSensitive(x) == x.name

\* key=lambda x: x['name'].lower()
SortKey(x) == Lower(x.name)

\* list.sort is stable: x goes after every element whose key is <= its key
SortedInsert(sorted, x) ==
    LET n == Cardinality({i \in 1..Len(sorted) : StrLeq(SortKey(sorted[i]), SortKey(x))})
    IN  SubSeq(sorted, 1, n) \o <<x>> \o SubSeq(sorted, n + 1, Len(sorted))

RECURSIVE SortByName(_, _)
SortByName(list, i) ==
    IF i = 0 THEN <<>> ELSE SortedInsert(SortByName(list, i - 1), list[i])

\* list.sort(key=...)
Sorted(list) == SortByName(list, Len(list))

\* self.applications after load_applications visited the pairs in the given order
Catalog(seq) == Sorted(Collect(seq, 1))

\* The paths handed to parse_desktop_file
ParsedPaths(seq) == [i \in 1..Len(seq) |-> seq[i].file_path]

load_applications ==
    \E seq \in ScanOrders :
        /\ applications' = Catalog(seq)
        /\ parsed' = ParsedPaths(seq)

---------------------------------------------------------------------------
(* The machine the program runs on *)

\* At most this many of the .desktop files below are installed at a time
MaxFiles == 2

\* The directories and programs present from the start
BaseDirs ==
    { "/", "/usr", "/usr/bin", "/usr/share", "/usr/share/applications",
      "/usr/share/applications/applications",
      "/opt", "/opt/share", "/opt/share/applications",
      "/var", "/var/lib", "/var/lib/flatpak", "/var/lib/flatpak/exports",
      "/var/lib/flatpak/exports/share", "/var/lib/flatpak/exports/share/applications",
      "/custom", "/custom/data", "/custom/data/applications",
      "/home", "/home/user", "/home/user/Desktop", "/home/user/.local", "/home/user/.local/share",
      "/home/user/.local/share/applications" }

BasePrograms == { "/usr/bin/vim", "/usr/bin/which" }

BaseFs ==
    [q \in BaseDirs \cup BasePrograms |-> IF q \in BaseDirs THEN DirNode ELSE FileNode(Mode755, "")]

\* The .desktop files that packages may install while the program runs
CatalogFiles ==
    [q \in { "/usr/share/applications/vim.desktop",
             "/usr/share/applications/applications.desktop",
             "/usr/share/applications/noexec.desktop",
             "/usr/share/applications/broken.desktop",
             "/opt/share/applications/tool.desktop",
             "/opt/share/applications-extra.desktop",
             "/var/lib/flatpak/exports/share/applications/org.zed.Zed.desktop",
             "/custom/data/applications/custom.desktop",
             "/home/user/.local/share/applications/noname.desktop" } |->
        CASE q = "/usr/share/applications/vim.desktop" ->
                FileNode(Mode644, "[Desktop Entry]\nName=Vim\nExec=vim %F\n")
          [] q = "/usr/share/applications/applications.desktop" ->
                FileNode(Mode644, "[Desktop Entry]\nName=apps\nExec=/usr/bin/apps\n")
          [] q = "/usr/share/applications/noexec.desktop" ->
                FileNode(Mode644, "[Desktop Entry]\nName=NoExec\nType=Link\n")
          [] q = "/usr/share/applications/broken.desktop" -> BinaryNode
          [] q = "/opt/share/applications/tool.desktop" ->
                FileNode(Mode644, "[Desktop Entry]\nName=Tool\nExec=tool\n")
          [] q = "/opt/share/applications-extra.desktop" ->
                FileNode(Mode644, "[Desktop Entry]\nName=Extra\nExec=extra\n")
          [] q = "/var/lib/flatpak/exports/share/applications/org.zed.Zed.desktop" ->
                FileNode(Mode644, "[Desktop Entry]\nName=Zed\nExec=/usr/bin/flatpak run org.zed.Zed\n")
          [] q = "/custom/data/applications/custom.desktop" ->
                FileNode(Mode644, "[Desktop Entry]\nGenericName=custom\nExec=custom\n")
          [] OTHER ->
                FileNode(Mode644, "[Desktop Entry]\nComment=nameless\nExec=/usr/bin/vim\n")]

\* The settings of XDG_DATA_DIRS and XDG_DATA_HOME the program may be started with
\* ("" standing for an unset variable)
XdgDataDirsChoices == { "", "/usr/share:/opt/share", "/usr/share/applications:/usr/share" }
XdgDataHomeChoices == { "", "/custom/data" }

\* os.environ with the given settings, an unset variable being absent
Environ(settings) == [k \in {x \in DOMAIN settings : settings[x] # ""} |-> settings[k]]

\* The form as create_widgets and __init__ leave it
FormInit ==
    /\ name_var = ""
    /\ path_var = ""
    /\ icon_var = ""
    /\ desc_var = ""
    /\ categories_var = "Application"
    /\ terminal_var = FALSE
    /\ dest_var = Home \o "/Desktop"


---------------------------------------------------------------------------
(* Spec: the catalog while packages are installed *)

\* __init__: self.applications = [] and then load_applications()
Init ==
    /\ \E dirs \in XdgDataDirsChoices, home \in XdgDataHomeChoices :
          environ = Environ([XDG_DATA_DIRS |-> dirs, XDG_DATA_HOME |-> home, PATH |-> "/usr/bin"])
    /\ fs = BaseFs
    /\ \E seq \in ScanOrders :
          /\ applications = Catalog(seq)
          /\ parsed = ParsedPaths(seq)
    /\ app_info = None
    /\ FormInit
    /\ last = [op |-> "load"]

Installed == DOMAIN fs \cap DOMAIN CatalogFiles

\* A package installs one of the .desktop files
InstallDesktopFile(q) ==
    /\ q \notin DOMAIN fs
    /\ Cardinality(Installed) < MaxFiles
    /\ fs' = [r \in DOMAIN fs \cup {q} |-> IF r = q THEN CatalogFiles[q] ELSE fs[r]]
    /\ last' = [op |-> "install"]
    /\ UNCHANGED <<environ, catalogVars, parserVars, formVars>>

\* The Refresh button
refresh_applications ==
    /\ load_applications
    /\ last' = [op |-> "load"]
    /\ UNCHANGED <<environ, fs, parserVars, formVars>>

Next ==
    \/ \E q \in DOMAIN CatalogFiles : InstallDesktopFile(q)
    \/ refresh_applications

Spec == Init /\ [][Next]_vars

---------------------------------------------------------------------------
(* Claims about the catalog, checked under Spec *)

\* The set of source files behind a sequence of path strings
C1_SourceFiles(paths) == {Resolve(paths[i]) : i \in 1..Len(paths)}

\* The keys under which a file can give the entry its name
C1_NameKeys == {"Name", "Name[" \o LangCode \o "]", "GenericName"}

\* C1: every entry of the catalog has a non-empty name and a non-empty exec, and
\* comes from a file whose [Desktop Entry] section gives an Exec value and a Name
\* (plain or under the locale's key) or GenericName value.
C1_CatalogEntriesValid ==
    \A i \in 1..Len(applications) :
        LET desktop_dict == DesktopDict(fs[Resolve(applications[i].desktop_file)].content)
        IN  /\ applications[i].name # ""
            /\ applications[i].exec # ""
            /\ Get(desktop_dict, "Exec", "") # ""
            /\ \E k \in C1_NameKeys : Get(desktop_dict, k, "") # ""

\* C1's case: a load parsed a file without a name and a file without Exec, kept
\* neither, and kept another entry.
C1_Witness ==
    /\ last.op = "load"
    /\ "/usr/share/applications/noexec.desktop" \in C1_SourceFiles(parsed)
    /\ Len(applications) = 1
    /\ applications[1].desktop_file # "/usr/share/applications/noexec.desktop"

\* The directory set the loader is specified to scan: the fixed directories, the
\* applications subdirectory of every non-empty XDG_DATA_DIRS entry and of
\* XDG_DATA_HOME (default ~/.local/share)
C4_SpecifiedDirs ==
    LET xdg_data_dirs == Split(Get(environ, "XDG_DATA_DIRS", ""), ":")
    IN  {FixedDirs[i] : i \in 1..Len(FixedDirs)}
        \cup {PathJoin(xdg_data_dirs[i], "applications") :
                i \in {j \in 1..Len(xdg_data_dirs) : xdg_data_dirs[j] # ""}}
        \cup {PathJoin(Get(environ, "XDG_DATA_HOME", Home \o "/.local/share"), "applications")}

\* The files named *.desktop directly inside an existing directory of that set
C4_ExpectedFiles ==
    {q \in DOMAIN fs :
        /\ EndsWith(q, ".desktop")
        /\ \E d \in C4_SpecifiedDirs : IsDir(d) /\ Parent(q) = Resolve(d)}

\* C4: a load hands to parse_desktop_file exactly the *.desktop files that lie
\* directly inside the existing directories of the specified set.
C4_ScanCompleteness == last.op = "load" => C1_SourceFiles(parsed) = C4_ExpectedFiles

\* C5: in one load no file is parsed twice, and no file gives two catalog entries.
C5_NoFileParsedTwice ==
    last.op = "load" =>
        /\ \A i, j \in 1..Len(parsed) : i # j => Resolve(parsed[i]) # Resolve(parsed[j])
        /\ \A i, j \in 1..Len(applications) :
              i # j => Resolve(applications[i].desktop_file) # Resolve(applications[j].desktop_file)

---------------------------------------------------------------------------
(* SpecParser: parse_desktop_file and find_executable_path called on a     *)
(* machine whose programs change                                           *)

\* The programs whose presence and mode change while the program runs
ParserPrograms == { "/usr/bin/which", "/usr/bin/vim", "/home/user/run.sh", "/home/user/bin/tool" }

ParserDirs == { "/home/user/bin", "/var/lib/snapd", "/var/lib/snapd/desktop",
                "/var/lib/snapd/desktop/applications" }

\* The .desktop files handed to parse_desktop_file
ParserFiles ==
    [q \in { "/usr/share/applications/locale.desktop",
             "/usr/share/applications/actions.desktop",
             "/usr/share/applications/broken.desktop",
             "/var/lib/snapd/desktop/applications/snap.desktop",
             "/var/lib/flatpak/exports/share/applications/app.zen_browser.zen.desktop",
             "/var/lib/flatpak/exports/share/applications/org.app.X.desktop",
             "/var/lib/flatpak/exports/share/applications/org.zed.Zed.desktop",
             "/home/user/.local/share/flatpak/exports/share/applications/org.app.U.desktop",
             "/usr/share/applications/xflat.desktop",
             "/usr/share/applications/snapvim.desktop" } |->
        CASE q = "/usr/share/applications/locale.desktop" ->
                FileNode(Mode644, "[Desktop Entry]\nName=Foo\nName[fr]=Fou\nComment=Text\nComment[fr]=Texte\nExec=vim %F\n")
          [] q = "/usr/share/applications/actions.desktop" ->
                FileNode(Mode644, "Name=Early\n[Desktop Entry]\nName=Tool\nExec=tool --x\nExec=./run.sh %U\n[Desktop Action new]\nName=New\nExec=nosuch\n")
          [] q = "/usr/share/applications/broken.desktop" -> BinaryNode
          [] q = "/var/lib/snapd/desktop/applications/snap.desktop" ->
                FileNode(Mode644, "[Desktop Entry]\nName=Snap\nExec=/snap/gui/app %U\n")
          [] q = "/var/lib/flatpak/exports/share/applications/app.zen_browser.zen.desktop" ->
                FileNode(Mode644, "[Desktop Entry]\nName=Zen\nExec=/usr/bin/flatpak run --branch=stable --arch=x86_64 --command=zen-browser app.zen_browser.zen @@u %U @@\n")
          [] q = "/var/lib/flatpak/exports/share/applications/org.app.X.desktop" ->
                FileNode(Mode644, "[Desktop Entry]\nName=X\nExec=flatpak run --verbose org.app.X\nIcon=org.app.X\n")
          [] q = "/home/user/.local/share/flatpak/exports/share/applications/org.app.U.desktop" ->
                FileNode(Mode644, "[Desktop Entry]\nName=U\nExec=flatpak run org.app.U /snap/gui/u\n")
          [] q = "/usr/share/applications/xflat.desktop" ->
                FileNode(Mode644, "[Desktop Entry]\nName=XF\nX-Flatpak=true\nExec=flatpak run org.app.S\n")
          [] q = "/usr/share/applications/snapvim.desktop" ->
                FileNode(Mode644, "[Desktop Entry]\nName=SnapVim\nExec=vim /snap/gui/rc\n")
          [] OTHER ->
                FileNode(Mode644, "[Desktop Entry]\nName=Zed\nExec=/usr/bin/flatpak run --branch=stable org.zed.Zed %U\nIcon=\n")]

\* The paths parse_desktop_file is called with: the files above and a missing one
ParserPaths == DOMAIN ParserFiles \cup { "/usr/share/applications/missing.desktop" }

\* The raw Exec strings find_executable_path is called with
ExecStrings ==
    { "vim %F", "/usr/bin/vim %F", "./run.sh %U", "tool --x", "nosuch %U",
      "/usr/bin/nosuch", "\"unclosed vim", "%U", "", "  " }

\* The settings of LANG and PATH the program may be started with
LangChoices == { "", "fr_FR.UTF-8" }
PathChoices == { "/usr/bin", "bin:/usr/bin" }

ParserFs ==
    [q \in DOMAIN BaseFs \cup ParserDirs \cup ParserPrograms \cup DOMAIN ParserFiles |->
        IF q \in DOMAIN ParserFiles THEN ParserFiles[q]
        ELSE IF q \in ParserPrograms THEN FileNode(Mode755, "")
        ELSE DirNode]

\* At most this many changes are made to the programs
MaxChanges == 1

InitParser ==
    /\ \E lang \in LangChoices, path \in PathChoices :
          environ = Environ([LANG |-> lang, PATH |-> path])
    /\ fs = ParserFs
    /\ applications = <<>>
    /\ parsed = <<>>
    /\ app_info = None
    /\ FormInit
    /\ last = [op |-> "start"]

\* The programs that are no longer as ParserFs has them
Changed == {q \in ParserPrograms : q \notin DOMAIN fs \/ fs[q] # ParserFs[q]}

\* chmod -x on one of the programs
RemoveExecuteBit(q) ==
    /\ q \in DOMAIN fs
    /\ Cardinality(Changed) < MaxChanges
    /\ fs' = [fs EXCEPT ![q] = FileNode(Mode644, "")]
    /\ last' = [op |-> "chmod"]
    /\ app_info' = None
    /\ UNCHANGED <<environ, catalogVars, formVars>>

\* One of the programs is uninstalled
RemoveProgram(q) ==
    /\ q \in DOMAIN fs
    /\ Cardinality(Changed) < MaxChanges
    /\ fs' = [r \in DOMAIN fs \ {q} |-> fs[r]]
    /\ last' = [op |-> "remove"]
    /\ app_info' = None
    /\ UNCHANGED <<environ, catalogVars, formVars>>

\* app_info = self.parse_desktop_file(file_path): the returned value, which the
\* caller holds until the next operation
ParseDesktopFile(file_path) ==
    /\ app_info' = parse_desktop_file(file_path)
    /\ last' = [op |-> "parse", file_path |-> file_path]
    /\ UNCHANGED <<environ, fs, catalogVars, formVars>>

\* self.find_executable_path(exec_string)
FindExecutablePath(exec_string) ==
    /\ last' = [op |-> "find", exec_string |-> exec_string,
                result |-> find_executable_path(exec_string)]
    /\ app_info' = None
    /\ UNCHANGED <<environ, fs, catalogVars, formVars>>

NextParser ==
    \/ \E q \in ParserPrograms : RemoveExecuteBit(q)
    \/ \E q \in ParserPrograms : RemoveProgram(q)
    \/ \E file_path \in ParserPaths : ParseDesktopFile(file_path)
    \/ \E exec_string \in ExecStrings : FindExecutablePath(exec_string)

SpecParser == InitParser /\ [][NextParser]_vars

---------------------------------------------------------------------------
(* Claims about parse_desktop_file and find_executable_path, checked under *)
(* SpecParser                                                              *)

\* The [Desktop Entry] pairs of the file the last call parsed
C2_ParsedDict == DesktopDict(fs[Resolve(last.file_path)].content)

\* The primary subtag of LANG: the text before the territory and the encoding
C2_PrimarySubtag == Split(Split(Get(environ, "LANG", "en_US.UTF-8"), ".")[1], "_")[1]

\* C2: the name and the comment of a parsed entry are the values of Name[<lang>] and
\* Comment[<lang>], <lang> being the primary subtag of LANG, whenever the file gives
\* them (LANG=fr_FR.UTF-8, Name=Foo, Name[fr]=Fou: the name is Fou).
C2_LocaleOverride ==
    (last.op = "parse" /\ app_info # None) =>
        /\ Get(C2_ParsedDict, "Name[" \o C2_PrimarySubtag \o "]", "") # ""
              => app_info.name = C2_ParsedDict["Name[" \o C2_PrimarySubtag \o "]"]
        /\ Get(C2_ParsedDict, "Comment[" \o C2_PrimarySubtag \o "]", "") # ""
              => app_info.comment = C2_ParsedDict["Comment[" \o C2_PrimarySubtag \o "]"]

\* The first token that is not a --flag token
RECURSIVE C3_FirstNonFlag(_, _)
C3_FirstNonFlag(tokens, i) ==
    IF i > Len(tokens) THEN ""
    ELSE IF StartsWith(tokens[i], "--") THEN C3_FirstNonFlag(tokens, i + 1)
    ELSE tokens[i]

\* The identifier the claim names in a raw Exec: after "flatpak run" and the --flag
\* tokens, the first token, if it is made of alphanumerics, dots, dashes and
\* underscores ("" when the Exec has no such shape)
C3_ExpectedId(exec) ==
    LET AsId(token) == IF token # "" /\ \A i \in 1..Len(token) : Ch(token, i) \in AlnumChars \cup {".", "-", "_"}
                       THEN token ELSE ""
        After(k) == IF k = 0 \/ Ch(exec, k + 11) \notin Whitespace THEN ""
                    ELSE AsId(C3_FirstNonFlag(SplitWhitespace(Slice(exec, k + 11, Len(exec))), 1))
    IN  After(Find(exec, "flatpak run"))

\* C3: a Flatpak-classified entry whose Exec is "flatpak run", flag tokens, identifier
\* resolves to "flatpak run <ID>", ID being that first token which is not a flag.
C3_FlatpakId ==
    (/\ last.op = "parse"
     /\ app_info # None
     /\ is_flatpak(C2_ParsedDict, last.file_path)
     /\ C3_ExpectedId(app_info.exec) # "")
        => app_info.resolved_path = "flatpak run " \o C3_ExpectedId(app_info.exec)

\* The candidate of the last find_executable_path call: the first token with its
\* field code cut off ("" when there is no token)
C10_Candidate ==
    LET First(exec_parts) == IF exec_parts = <<>> THEN "" ELSE ExecCandidate(exec_parts)
    IN  First(ExecParts(last.exec_string))

\* The names the lookup can answer with: the candidate as it stands, or a directory
\* of PATH joined with it
C10_Lookups ==
    {C10_Candidate} \cup
    {(IF PathDirs[i] = "" THEN "." ELSE PathDirs[i]) \o "/" \o C10_Candidate : i \in 1..Len(PathDirs)}

\* C10 as stated: the result is an absolute executable path or the raw Exec string.
C10_AbsoluteOrRaw ==
    last.op = "find" =>
        \/ last.result = last.exec_string
        \/ IsAbs(last.result) /\ AccessX(last.result)

\* C10, amended: the result is the raw Exec string, or an executable file named by
\* the candidate or by a directory of PATH joined with the candidate (relative when
\* the candidate or that directory is relative); it is the raw string whenever there
\* is no candidate, and whenever the candidate is not an absolute executable path and
\* the lookup tool cannot be run.
C10_ExecutableOrRaw ==
    last.op = "find" =>
        /\ \/ last.result = last.exec_string
           \/ last.result \in C10_Lookups /\ AccessX(last.result)
        /\ C10_Candidate = "" => last.result = last.exec_string
        /\ (~(IsAbs(C10_Candidate) /\ AccessX(C10_Candidate)) /\ WhichTool # "ok")
              => last.result = last.exec_string

\* C10's case: a lookup answered with a path that is not absolute, and the result is
\* neither the raw string nor absolute.
C10_Witness ==
    /\ last.op = "find"
    /\ last.result # last.exec_string
    /\ ~IsAbs(last.result)
    /\ AccessX(last.result)

---------------------------------------------------------------------------
(* ShortcutCreator.create_shortcut *)

\* The validation with the test of the exec command left out
InvalidNameOnly(name, exec_command) == name = ""

\* not name, not exec_command: the input create_shortcut rejects
Invalid(name, exec_command) == name = "" \/ exec_command = ""

\* The working directory with PATH resolution tried for a command that is not
\* absolute only
WorkingDirRelativeOnly(exec_command) ==
    LET OfBinary(resolved_bin_path) ==
            IF IsAbs(resolved_bin_path) /\ IsFile(PathStr(resolved_bin_path))
            THEN Parent(resolved_bin_path)
            ELSE ""
        OfPath(node) == IF node.kind = "dir" THEN PathStr(exec_command)
                        ELSE IF node.kind = "file" THEN Parent(exec_command)
                        ELSE ""
    IN  IF StartsWith(exec_command, "flatpak run") \/ StartsWith(exec_command, "snap run") THEN ""
        ELSE IF IsAbs(exec_command)
        THEN OfPath(Stat(PathStr(exec_command)))
        ELSE OfBinary(find_executable_path(exec_command))

\* The working directory create_shortcut derives from the exec command ("" when
\* none is determined); pathlib normalises a path string before it asks the kernel
WorkingDir(exec_command) ==
    LET OfBinary(resolved_bin_path) ==
            IF IsAbs(resolved_bin_path) /\ IsFile(PathStr(resolved_bin_path))
            THEN Parent(resolved_bin_path)
            ELSE ""
        OfPath(node) == IF node.kind = "dir" THEN PathStr(exec_command)
                        ELSE IF node.kind = "file" THEN Parent(exec_command)
                        ELSE ""
    IN  IF StartsWith(exec_command, "flatpak run") \/ StartsWith(exec_command, "snap run") THEN ""
        ELSE IF IsAbs(exec_command) /\ Exists(PathStr(exec_command))
        THEN OfPath(Stat(PathStr(exec_command)))
        ELSE OfBinary(find_executable_path(exec_command))

\* desktop_content with the Icon line put before the Comment line
DesktopContentIconFirst(name, exec_command, working_dir) ==
    LET Line(key, value, end) == IF value = "" THEN "" ELSE key \o "=" \o value \o end \o "\n"
    IN  "[Desktop Entry]\n"
        \o "Version=1.0\n"
        \o "Type=Application\n"
        \o "Name=" \o name \o "\n"
        \o "Exec=" \o exec_command \o "\n"
        \o Line("Path", working_dir, "")
        \o Line("Icon", Strip(icon_var), "")
        \o Line("Comment", Strip(desc_var), "")
        \o Line("Categories", Strip(categories_var), ";")
        \o "Terminal=" \o (IF terminal_var THEN "true" ELSE "false") \o "\n"
        \o "StartupNotify=true\n"

\* desktop_content: the text of the shortcut file
DesktopContent(name, exec_command, working_dir) ==
    LET Line(key, value, end) == IF value = "" THEN "" ELSE key \o "=" \o value \o end \o "\n"
    IN  "[Desktop Entry]\n"
        \o "Version=1.0\n"
        \o "Type=Application\n"
        \o "Name=" \o name \o "\n"
        \o "Exec=" \o exec_command \o "\n"
        \o Line("Path", working_dir, "")
        \o Line("Comment", Strip(desc_var), "")
        \o Line("Icon", Strip(icon_var), "")
        \o Line("Categories", Strip(categories_var), ";")
        \o "Terminal=" \o (IF terminal_var THEN "true" ELSE "false") \o "\n"
        \o "StartupNotify=true\n"

\* The character map with the slash kept as well
SafeCharKeepSlash(c) == IF IsAlnum(c) \/ c \in {" ", "-", "_", ".", "/"} THEN c ELSE "_"

\* c if c.isalnum() or c in (' ', '-', '_', '.') else '_'
SafeChar(c) == IF IsAlnum(c) \/ c \in {" ", "-", "_", "."} THEN c ELSE "_"

\* "".join(... for c in name)
SafeChars(name) == Concat([i \in 1..Len(name) |-> SafeChar(Ch(name, i))], 1, Len(name))

\* s with "__" replaced by "_" until no "__" is left
RECURSIVE CollapseAll(_)
CollapseAll(s) == IF Contains(s, "__") THEN CollapseAll(Replace(s, "__", "_")) ELSE s

\* safe_name with the underscores collapsed until none is doubled
SafeNameCollapsed(name) ==
    LET Or(s) == IF s = "" THEN "untitled_shortcut" ELSE s
    IN  Or(CollapseAll(Strip(SafeChars(name))))

\* safe_name: the stem of the shortcut file
SafeName(name) ==
    LET Or(s) == IF s = "" THEN "untitled_shortcut" ELSE s
    IN  Or(Replace(Strip(SafeChars(name)), "__", "_"))

\* The directories on the way from the root to a path, the path included
Ancestors(p) ==
    LET Upto(comps) == {PathOf(SubSeq(comps, 1, k)) : k \in 1..Len(comps)}
    IN  Upto(Walk(Split(Resolve(p), "/"), 1, <<>>))

\* dest_dir.mkdir(parents=True, exist_ok=True) in the filesystem files: every missing
\* directory on the way is made (mode 0o755 under umask 022); the call raises, and
\* makes nothing, when a file stands on the way
Mkdir(files, dest_dir) ==
    LET Made(dirs) ==
            IF \E a \in dirs : a \in DOMAIN files /\ files[a].kind # "dir"
            THEN [ok |-> FALSE, fs |-> files]
            ELSE [ok |-> TRUE,
                  fs |-> [q \in DOMAIN files \cup dirs |-> IF q \in DOMAIN files THEN files[q] ELSE DirNode]]
    IN  Made(Ancestors(dest_dir))

\* open(desktop_file_path, 'w') and f.write(desktop_content) in the filesystem files:
\* an existing file is truncated and keeps its mode, a new file gets mode 0o644
\* (umask 022); the call raises when the path names a directory or its parent is
\* not a directory
OpenWrite(files, desktop_file_path, desktop_content) ==
    LET Failed == [ok |-> FALSE, fs |-> files]
        Stored(q, mode) ==
            [ok |-> TRUE,
             fs |-> [r \in DOMAIN files \cup {q} |->
                        IF r = q THEN FileNode(mode, desktop_content) ELSE files[r]]]
        On(node, q) == IF node.kind = "dir" THEN Failed
                       ELSE IF node.kind = "file" THEN Stored(q, node.mode)
                       ELSE IF StatIn(files, Parent(desktop_file_path)).kind = "dir"
                       THEN Stored(q, Mode644)
                       ELSE Failed
    IN  On(StatIn(files, desktop_file_path), Resolve(desktop_file_path))

\* os.chmod(p, mode) in the filesystem files
Chmod(files, p, mode) == [files EXCEPT ![Resolve(p)].mode = mode]

\* messagebox.askyesno when desktop_file_path exists: the user's answer, "none" when
\* the file does not exist and nothing is asked
AskOverwrite(files, desktop_file_path, response) ==
    IF StatIn(files, desktop_file_path).kind = "none" THEN "none"
    ELSE IF response THEN "yes"
    ELSE "no"

\* The handler going on whatever the answer is
ProceedAlways(prompt) == TRUE

\* if not response: return
Proceed(prompt) == prompt # "no"

\* The try block of create_shortcut: the destination directory made when missing,
\* the overwrite dialog, the file written and made executable; any exception ends
\* the block with what was done before it
WriteShortcut(desktop_content, dest_dir, safe_name, response) ==
    LET Result(files, outcome, desktop_file_path, prompt) ==
            [fs |-> files, outcome |-> outcome, desktop_file_path |-> desktop_file_path,
             prompt |-> prompt]
        Written(opened, desktop_file_path, prompt) ==
            IF opened.ok
            THEN Result(Chmod(opened.fs, desktop_file_path, Mode755), "written", desktop_file_path, prompt)
            ELSE Result(opened.fs, "error", desktop_file_path, prompt)
        Asked(files, desktop_file_path, prompt) ==
            IF Proceed(prompt)
            THEN Written(OpenWrite(files, desktop_file_path, desktop_content), desktop_file_path, prompt)
            ELSE Result(files, "declined", desktop_file_path, prompt)
        Named(files, desktop_file_path) ==
            Asked(files, desktop_file_path, AskOverwrite(files, desktop_file_path, response))
        Made(made) == IF made.ok
                      THEN Named(made.fs, PathJoin(dest_dir, safe_name \o ".desktop"))
                      ELSE Result(made.fs, "error", "", "none")
    IN  Made(IF Exists(dest_dir) THEN [ok |-> TRUE, fs |-> fs] ELSE Mkdir(fs, dest_dir))

---------------------------------------------------------------------------
(* SpecWriter: create_shortcut and clear_fields on a filled form *)

\* The shortcut names the user may have entered
Names == { "", "App", " Web App ", "My/App:2024", "____", "../x" }

\* The exec commands the user may have entered
Commands ==
    { "", "vim", "/usr/bin/vim %F", "/usr/bin", "flatpak run org.zed.Zed", "nosuch --x",
      "/home/user/new/App.desktop", "/home/user/new" }

\* The destinations the user may have entered: the desktop, a directory that does
\* not exist yet, and a file
Destinations == { "/home/user/Desktop", "/home/user/new", "/usr/bin/vim" }

\* The other fields the user may have left or filled
Options ==
    { [icon |-> "", desc |-> "", categories |-> "Application", terminal |-> FALSE],
      [icon |-> " vim ", desc |-> "An editor", categories |-> "", terminal |-> TRUE],
      [icon |-> "", desc |-> "  ", categories |-> " Utility;Dev ", terminal |-> FALSE] }

InitWriter ==
    /\ environ = Environ([PATH |-> "/usr/bin"])
    /\ fs = BaseFs
    /\ applications = <<>>
    /\ parsed = <<>>
    /\ app_info = None
    /\ name_var \in Names
    /\ path_var \in Commands
    /\ dest_var \in Destinations
    /\ \E o \in Options :
          /\ icon_var = o.icon
          /\ desc_var = o.desc
          /\ categories_var = o.categories
          /\ terminal_var = o.terminal
    /\ last = [op |-> "start"]

\* The Create Shortcut button, response being the answer the user gives if the
\* overwrite dialog is shown
create_shortcut(response) ==
    LET Done(run, working_dir) ==
            /\ fs' = run.fs
            /\ last' = [op |-> "create", outcome |-> run.outcome,
                        desktop_file_path |-> run.desktop_file_path, prompt |-> run.prompt,
                        working_dir |-> working_dir]
        Filled(name, exec_command, working_dir) ==
            Done(WriteShortcut(DesktopContent(name, exec_command, working_dir),
                               PathStr(dest_var), SafeName(name), response),
                 working_dir)
        Checked(name, exec_command) ==
            IF Invalid(name, exec_command)
            THEN Done([fs |-> fs, outcome |-> "invalid", desktop_file_path |-> "", prompt |-> "none"], "")
            ELSE Filled(name, exec_command, WorkingDir(exec_command))
    IN  /\ Checked(Strip(name_var), Strip(path_var))
        /\ UNCHANGED <<environ, catalogVars, parserVars, formVars>>

\* The Clear Fields button
clear_fields ==
    /\ name_var' = ""
    /\ path_var' = ""
    /\ icon_var' = ""
    /\ desc_var' = ""
    /\ categories_var' = "Application"
    /\ terminal_var' = FALSE
    /\ dest_var' = Home \o "/Desktop"
    /\ last' = [op |-> "clear"]
    /\ UNCHANGED <<environ, fs, catalogVars, parserVars>>

NextWriter ==
    \/ \E response \in BOOLEAN : create_shortcut(response)
    \/ clear_fields

SpecWriter == InitWriter /\ [][NextWriter]_vars

\* The file a create_shortcut step wrote to or asked about
C6_Target == Resolve(last.desktop_file_path)

\* C6: a shortcut written twice in a row from the same form, the overwrite confirmed
\* the second time, has the same content after the second run as after the first.
C6_Idempotent ==
    [][ (/\ last.op = "create" /\ last.outcome = "written"
         /\ last'.op = "create" /\ last'.outcome = "written" /\ last'.prompt = "yes"
         /\ last'.desktop_file_path = last.desktop_file_path)
            => fs'[C6_Target].content = fs[C6_Target].content ]_vars

\* C7: when the user answers no to the overwrite dialog the handler returns and
\* leaves every file and directory as it was (content, mode, none created), and a
\* file that existed is written only after the user answered yes.
C7_DeclineChangesNothing ==
    [][ last'.op = "create" =>
            /\ last'.prompt = "no" => (fs' = fs /\ last'.outcome = "declined")
            /\ (StatIn(fs, last'.desktop_file_path).kind # "none" /\ last'.outcome = "written")
                  => last'.prompt = "yes" ]_vars

\* C7's case: the user declined to overwrite a shortcut written before, which is
\* still there with its mode.
C7_Witness ==
    /\ last.op = "create"
    /\ last.outcome = "declined"
    /\ last.prompt = "no"
    /\ IsFile(last.desktop_file_path)
    /\ Stat(last.desktop_file_path).mode = Mode755

\* C8: when the name or the exec command is empty after trimming, create_shortcut
\* reports the error and changes nothing in the filesystem: no directory made, no
\* file written, no mode changed.
C8_ValidationBeforeMutation ==
    [][ (last'.op = "create" /\ (Strip(name_var) = "" \/ Strip(path_var) = ""))
            => (fs' = fs /\ last'.outcome = "invalid") ]_vars

\* C8's case: a form with a name and no exec command was rejected, and its missing
\* destination directory was not made.
C8_Witness ==
    /\ last.op = "create"
    /\ last.outcome = "invalid"
    /\ Strip(name_var) # ""
    /\ Strip(path_var) = ""
    /\ ~Exists(dest_var)

\* The stem as the claim describes it: every character outside alphanumerics, space,
\* hyphen, underscore and dot replaced by "_", then each "__" found in one pass from
\* the left replaced by "_", then the surrounding whitespace trimmed
C9_Stem(name) ==
    LET Kept(c)       == c \in AlnumChars \cup {" ", "-", "_", "."}
        Mapped        == [i \in 1..Len(name) |-> IF Kept(Ch(name, i)) THEN Ch(name, i) ELSE "_"]
        Joined(parts) == Concat([i \in 1..(2 * Len(parts) - 1) |->
                                    IF i % 2 = 1 THEN parts[(i + 1) \div 2] ELSE "_"],
                                1, 2 * Len(parts) - 1)
    IN  Strip(Joined(Split(Concat(Mapped, 1, Len(name)), "__")))

C11_Lines ==
    LET Opt(key, value, end) == IF value = "" THEN <<>> ELSE <<key \o "=" \o value \o end>>
    IN  <<"[Desktop Entry]", "Version=1.0", "Type=Application",
          "Name=" \o Strip(name_var), "Exec=" \o Strip(path_var)>>
        \o Opt("Path", last.working_dir, "")
        \o Opt("Comment", Strip(desc_var), "")
        \o Opt("Icon", Strip(icon_var), "")
        \o Opt("Categories", Strip(categories_var), ";")
        \o <<IF terminal_var THEN "Terminal=true" ELSE "Terminal=false", "StartupNotify=true">>

\* The lines of the file the last create_shortcut wrote, the end after the last
\* newline left out
C11_Written ==
    LET Body(lines) == SubSeq(lines, 1, Len(lines) - 1)
    IN  Body(Split(fs[C6_Target].content, "\n"))

\* C11: the file create_shortcut wrote is [Desktop Entry] followed by Version=1.0,
\* Type=Application, Name, Exec, Path, Comment, Icon, Categories, Terminal and
\* StartupNotify=true in this order, every line ended by a newline; Path, Comment,
\* Icon and Categories are there exactly when their value is not empty, Categories
\* is the trimmed value and one ";", Terminal is true or false in lower case, and no
\* key comes twice.
C11_Serialization ==
    LET Keys(lines)   == [i \in 2..Len(lines) |-> SplitOnce(lines[i], "=")[1]]
        Once(keys)    == \A i, j \in DOMAIN keys : i # j => keys[i] # keys[j]
        Fixed(lines)  == lines = C11_Lines /\ Once(Keys(lines))
    IN  (last.op = "create" /\ last.outcome = "written") =>
            /\ EndsWith(fs[C6_Target].content, "\n")
            /\ Fixed(C11_Written)

\* C11's case: a file was written with Path, Comment and Icon and without
\* Categories, the terminal box ticked.
C11_Witness ==
    /\ last.op = "create"
    /\ last.outcome = "written"
    /\ last.working_dir # ""
    /\ Strip(desc_var) # ""
    /\ Strip(icon_var) # ""
    /\ Strip(categories_var) = ""
    /\ terminal_var
    /\ Len(C11_Written) = 10

\* The Flatpak condition of the claim: X-Flatpak=true in the file, or the file under
\* the system or the user's Flatpak export directory
C12_Flatpak ==
    \/ Get(C2_ParsedDict, "X-Flatpak", "") = "true"
    \/ StartsWith(last.file_path, "/var/lib/flatpak/exports/share/applications/")
    \/ StartsWith(last.file_path, "/home/user/.local/share/flatpak/exports/share/applications/")

\* The Snap condition of the claim: not Flatpak, and snap/gui in the raw Exec
C12_Snap == ~C12_Flatpak /\ Contains(app_info.exec, "snap/gui")

\* What the Flatpak rule makes of a raw Exec: "flatpak run <ID>" when the pattern
\* finds an ID, the raw Exec when it does not
C12_FlatpakRule(exec) ==
    LET Of(match) == IF match.matched THEN "flatpak run " \o match.flatpak_id ELSE exec
    IN  Of(FlatpakSearch(exec))

\* C12: a parsed entry is resolved by the Flatpak rule exactly when it is Flatpak
\* (also when its Exec holds snap/gui), by the Snap rule, which keeps the raw Exec,
\* exactly when it is not Flatpak and its Exec holds snap/gui, and by
\* find_executable_path in every other case.
C12_ClassificationPriority ==
    (last.op = "parse" /\ app_info # None) =>
        app_info.resolved_path =
            IF C12_Flatpak THEN C12_FlatpakRule(app_info.exec)
            ELSE IF C12_Snap THEN app_info.exec
            ELSE find_executable_path(app_info.exec)

\* C12's case: an entry under the user's Flatpak export directory whose Exec holds
\* snap/gui was resolved by the Flatpak rule, which changed its Exec.
C12_Witness ==
    /\ last.op = "parse"
    /\ app_info # None
    /\ C12_Flatpak
    /\ Contains(app_info.exec, "snap/gui")
    /\ app_info.resolved_path = "flatpak run org.app.U"
    /\ app_info.resolved_path # app_info.exec

\* C13: whenever the catalog has been loaded or refreshed, each entry's lowercased
\* name is at most the lowercased name of the entry after it.
C13_SortedByLowerName ==
    \A i \in 1..(Len(applications) - 1) :
        StrLeq(Lower(applications[i].name), Lower(applications[i + 1].name))

\* C13's case: a refresh put apps before Vim, which the order of the plain names
\* would put after it.
C13_Witness ==
    /\ last.op = "load"
    /\ Len(applications) = 2
    /\ applications[1].name = "apps"
    /\ applications[2].name = "Vim"
    /\ ~StrLeq(applications[1].name, applications[2].name)

\* The parent of the file find_executable_path answers with, "" when the answer is
\* not an absolute existing file
C14_Resolved(exec) ==
    LET Of(resolved) == IF IsAbs(resolved) /\ IsFile(PathStr(resolved)) THEN Parent(resolved) ELSE ""
    IN  Of(find_executable_path(exec))

\* The working directory as the claim states it, PATH resolution being for a
\* command that is not absolute
C14_Stated(exec) ==
    IF StartsWith(exec, "flatpak run") \/ StartsWith(exec, "snap run") THEN ""
    ELSE IF IsAbs(exec) /\ IsDir(PathStr(exec)) THEN PathStr(exec)
    ELSE IF IsAbs(exec) /\ IsFile(PathStr(exec)) THEN Parent(exec)
    ELSE IF ~IsAbs(exec) THEN C14_Resolved(exec)
    ELSE ""

\* The working directory with PATH resolution for every command that is not an
\* absolute existing path
C14_Amended(exec) ==
    IF StartsWith(exec, "flatpak run") \/ StartsWith(exec, "snap run") THEN ""
    ELSE IF IsAbs(exec) /\ IsDir(PathStr(exec)) THEN PathStr(exec)
    ELSE IF IsAbs(exec) /\ IsFile(PathStr(exec)) THEN Parent(exec)
    ELSE IF ~(IsAbs(exec) /\ Exists(PathStr(exec))) THEN C14_Resolved(exec)
    ELSE ""

\* The Path line of a text: the directory after "Path=", "" when no line has the key
C14_PathLine(content) ==
    LET At(k) == IF k = 0 THEN ""
                 ELSE Slice(content, k + 6, FindFrom(content, "\n", k + 1) - 1)
    IN  At(Find(content, "\nPath="))

C15_FileLines ==
    LET Trimmed(lines) == [i \in 1..Len(lines) |-> Strip(lines[i])]
    IN  Trimmed(Split(fs[Resolve(last.file_path)].content, "\n"))

\* Line i of lines is a section header
C15_IsHeader(lines, i) == StartsWith(lines[i], "[") /\ EndsWith(lines[i], "]")

\* Line i of lines is a key=value line whose most recent section header is
\* [Desktop Entry]
C15_InEntry(lines, i) ==
    LET Under(headers) == headers # {} /\ lines[Max(headers)] = "[Desktop Entry]"
    IN  /\ ~C15_IsHeader(lines, i)
        /\ Contains(lines[i], "=")
        /\ Under({j \in 1..(i - 1) : C15_IsHeader(lines, j)})

\* The values lines give a key: the value of its last line inside [Desktop Entry],
\* or nothing
C15_Values(lines, key) ==
    LET Last(hits) == IF hits = {} THEN {} ELSE {SplitOnce(lines[Max(hits)], "=")[2]}
    IN  Last({i \in 1..Len(lines) : C15_InEntry(lines, i) /\ SplitOnce(lines[i], "=")[1] = key})

\* The values of several keys, "" standing for a key the lines do not give
C15_AnyOf(lines, keys) == UNION {C15_Values(lines, k) : k \in keys} \cup {""}

\* C15: every field of a parsed entry comes from key=value lines whose most recent
\* section header is [Desktop Entry], and from the last such line of its key; lines
\* before any header or in another section, a [Desktop Action ...] section after
\* [Desktop Entry] included, give nothing.
C15_SectionScoping ==
    LET Scoped(lines) ==
            /\ app_info.exec \in C15_Values(lines, "Exec") \cup {""}
            /\ app_info.exec = "" => C15_Values(lines, "Exec") \subseteq {""}
            /\ app_info.categories \in C15_AnyOf(lines, {"Categories"})
            /\ app_info.terminal = ("true" \in {Lower(v) : v \in C15_Values(lines, "Terminal")})
            /\ app_info.name \in C15_AnyOf(lines, C1_NameKeys)
            /\ app_info.comment \in C15_AnyOf(lines, {"Comment", "Comment[" \o LangCode \o "]"})
            /\ ~C12_Flatpak => app_info.icon \in C15_AnyOf(lines, {"Icon", "Icon[" \o LangCode \o "]"})
    IN  (last.op = "parse" /\ app_info # None) => Scoped(C15_FileLines)

\* C15's case: a file with a Name line before any header, two Exec lines in
\* [Desktop Entry] and Name and Exec lines in a [Desktop Action ...] section after it
\* was parsed; the entry has the name of [Desktop Entry] and its second Exec.
C15_Witness ==
    /\ last.op = "parse"
    /\ last.file_path = "/usr/share/applications/actions.desktop"
    /\ app_info # None
    /\ app_info.name = "Tool"
    /\ app_info.exec = "./run.sh %U"
    /\ Cardinality({i \in 1..Len(C15_FileLines) : C15_InEntry(C15_FileLines, i)}) = 3
    /\ Cardinality({i \in 1..Len(C15_FileLines) : Contains(C15_FileLines[i], "=")}) = 6

\* The files a step created or changed (content or mode)
C16_Touched ==
    {q \in DOMAIN fs' : fs'[q].kind = "file" /\ (q \notin DOMAIN fs \/ fs[q] # fs'[q])}

====
